---- MODULE Spec2Model ----
(***************************************************************************)
(* Model of the Neural Additive Model training script: the per-fold        *)
(* training loop with early stopping (run.py, train_model), the outer      *)
(* cross-validation loop (run.py, main) and the pure loss/metric functions *)
(* (nam/metrics.py).                                                       *)
(*                                                                         *)
(* Weights are abstracted to a version number: the number of training      *)
(* passes that produced them.  Validation and test scores are drawn from   *)
(* small integer ranges; the values returned by the metric functions are   *)
(* exact rationals [num, den].                                             *)
(***************************************************************************)
EXTENDS Integers, Sequences, FiniteSets

\* ---------------------------------------------------------------- bounds
MaxEpochs == 3
MaxPatience == 2
MaxScore == 2
MaxSplits == 2
MaxTestScore == 1
MaxRows == 2
MaxClasses == 3
MaxBatch == 2
MaxFeat == 2
MaxLambda == 2

VARIABLES
    \* FLAGS and the shape of the target
    regression, y_ndim, training_epochs, early_stopping_epochs, n_splits,
    \* main
    mainpc, yielded, test_scores, nCalls, tested,
    \* train_model
    pc, epoch, model, criterion, n_tries, best_validation_score, best_weights,
    metric, val_score,
    \* history of the current train_model call
    scores, nTrain, nSteps, nModels,
    \* nam.metrics
    mpc, logits, truths, accuracy, fnn_out, lambda_, k_, loss, lossK

flagVars == <<regression, y_ndim, training_epochs, early_stopping_epochs, n_splits>>
mainVars == <<mainpc, yielded, test_scores, nCalls, tested>>
trainVars == <<pc, epoch, model, criterion, n_tries, best_validation_score,
               best_weights, metric, val_score>>
histVars == <<scores, nTrain, nSteps, nModels>>
metricVars == <<mpc, logits, truths, accuracy, fnn_out, lambda_, k_, loss, lossK>>
vars == <<flagVars, mainVars, trainVars, histVars, metricVars>>

\* best_weights = None
None == <<>>

\* ------------------------------------------------------------ nam.metrics
RECURSIVE SumSeq(_)
SumSeq(s) == IF s = <<>> THEN 0 ELSE Head(s) + SumSeq(Tail(s))

\* the flattened squares of a tensor given as a sequence of rows
RECURSIVE SumSquares(_)
SumSquares(t) ==
    IF t = <<>> THEN 0
    ELSE SumSeq([j \in 1..Len(Head(t)) |-> Head(t)[j] * Head(t)[j]]) + SumSquares(Tail(t))

\* shape[1] of a tensor given as a non-empty sequence of rows
Shape1(t) == Len(t[1])

\* numel of a tensor given as a non-empty sequence of rows
Numel(t) == Len(t) * Len(t[1])

feature_loss_batch(t, l) == [num |-> l * SumSquares(t), den |-> Len(t)]

feature_loss(t, l) == [num |-> l * SumSquares(t), den |-> Shape1(t)]

\* argmax(-1) of one row: the index of the first maximal value
argmax(row) ==
    CHOOSE i \in 1..Len(row) :
        /\ \A j \in 1..Len(row) : row[j] <= row[i]
        /\ \A j \in 1..(i - 1) : row[j] < row[i]

\* the number of rows whose arg-max classes agree
Matches(lg, tr) == Cardinality({r \in 1..Len(lg) : argmax(lg[r]) = argmax(tr[r])})

accuracyMuti(lg, tr) == [num |-> Matches(lg, tr), den |-> Numel(tr)]

calculate_metric_name(reg) == IF reg THEN "MAE" ELSE "accuracy"

\* ------------------------------------------------------------ train_model
\* run.py lines 66-72: only the regression branch assigns criterion
Criterion(reg, ndim) ==
    LET first == IF reg THEN "penalized_mse" ELSE "penalized_cross_entropy"
    IN  IF reg THEN "penalized_mse"
        ELSE IF ndim = 1 THEN first
        ELSE first

\* main line 159, next(train) yields a pair; the generator of
\* create_test_train_fold yields n_splits pairs in all
NextFold ==
    /\ mainpc = "next"
    /\ yielded < n_splits
    /\ yielded' = yielded + 1
    /\ mainpc' = "call"
    /\ UNCHANGED <<test_scores, nCalls, tested>>
    /\ UNCHANGED <<flagVars, trainVars, histVars, metricVars>>

\* main lines 159, 164-165: next(train) raises StopIteration, the loop breaks
FoldsExhausted ==
    /\ mainpc = "next"
    /\ yielded = n_splits
    /\ mainpc' = "exited"
    /\ UNCHANGED <<yielded, test_scores, nCalls, tested>>
    /\ UNCHANGED <<flagVars, trainVars, histVars, metricVars>>

\* train_model lines 51-81: a new model, the criterion, the early-stopping state
TrainModelSetup ==
    /\ mainpc = "call"
    /\ mainpc' = "train_model"
    /\ nCalls' = nCalls + 1
    /\ nModels' = nModels + 1
    /\ model' = [id |-> nModels + 1, weights |-> 0]
    /\ criterion' = Criterion(regression, y_ndim)
    /\ n_tries' = early_stopping_epochs
    /\ best_validation_score' = 0
    /\ best_weights' = None
    /\ epoch' = -1
    /\ scores' = <<>>
    /\ nTrain' = 0
    /\ nSteps' = 0
    /\ pc' = "for"
    /\ UNCHANGED <<yielded, test_scores, tested, metric, val_score>>
    /\ UNCHANGED <<flagVars, metricVars>>

\* line 83: the range iterator gives the next epoch
ForNext ==
    /\ pc = "for"
    /\ epoch + 1 < training_epochs
    /\ epoch' = epoch + 1
    /\ pc' = "train"
    /\ UNCHANGED <<model, criterion, n_tries, best_validation_score, best_weights,
                   metric, val_score>>
    /\ UNCHANGED <<flagVars, mainVars, histVars, metricVars>>

\* line 83: the range iterator is exhausted
ForExhausted ==
    /\ pc = "for"
    /\ epoch + 1 >= training_epochs
    /\ pc' = "load"
    /\ UNCHANGED <<epoch, model, criterion, n_tries, best_validation_score,
                   best_weights, metric, val_score>>
    /\ UNCHANGED <<flagVars, mainVars, histVars, metricVars>>

TrainOneEpochSkipsScheduler ==
    /\ pc = "train"
    /\ model' = [model EXCEPT !.weights = @ + 1]
    /\ nTrain' = nTrain + 1
    /\ pc' = "validate"
    /\ UNCHANGED <<epoch, criterion, n_tries, best_validation_score, best_weights,
                   metric, val_score>>
    /\ UNCHANGED <<scores, nSteps, nModels>>
    /\ UNCHANGED <<flagVars, mainVars, metricVars>>

\* lines 84-86: one training pass changes the model's weights
TrainOneEpoch ==
    /\ pc = "train"
    /\ model' = [model EXCEPT !.weights = @ + 1]
    /\ nTrain' = nTrain + 1
    /\ pc' = "sched"
    /\ UNCHANGED <<epoch, criterion, n_tries, best_validation_score, best_weights,
                   metric, val_score>>
    /\ UNCHANGED <<scores, nSteps, nModels>>
    /\ UNCHANGED <<flagVars, mainVars, metricVars>>

\* line 88: scheduler.step()
SchedulerStep ==
    /\ pc = "sched"
    /\ nSteps' = nSteps + 1
    /\ pc' = "validate"
    /\ UNCHANGED <<epoch, model, criterion, n_tries, best_validation_score,
                   best_weights, metric, val_score>>
    /\ UNCHANGED <<scores, nTrain, nModels>>
    /\ UNCHANGED <<flagVars, mainVars, metricVars>>

\* lines 90-92: the validation pass gives the metric's name and the score
Validate ==
    /\ pc = "validate"
    /\ \E s \in 0..MaxScore :
        /\ val_score' = s
        /\ scores' = Append(scores, s)
    /\ metric' = calculate_metric_name(regression)
    /\ pc' = "decide"
    /\ UNCHANGED <<epoch, model, criterion, n_tries, best_validation_score, best_weights>>
    /\ UNCHANGED <<nTrain, nSteps, nModels>>
    /\ UNCHANGED <<flagVars, mainVars, metricVars>>

CountdownToZero ==
    /\ pc = "decide"
    /\ val_score <= best_validation_score /\ n_tries > 0
    /\ n_tries' = 0
    /\ pc' = "for"
    /\ UNCHANGED <<epoch, model, criterion, best_validation_score, best_weights,
                   metric, val_score>>
    /\ UNCHANGED <<flagVars, mainVars, histVars, metricVars>>

\* lines 95-97: a non-improving epoch with countdown left
Countdown ==
    /\ pc = "decide"
    /\ val_score <= best_validation_score /\ n_tries > 0
    /\ n_tries' = n_tries - 1
    /\ pc' = "for"
    /\ UNCHANGED <<epoch, model, criterion, best_validation_score, best_weights,
                   metric, val_score>>
    /\ UNCHANGED <<flagVars, mainVars, histVars, metricVars>>

\* lines 98-100: a non-improving epoch with no countdown left
EarlyStop ==
    /\ pc = "decide"
    /\ ~(val_score <= best_validation_score /\ n_tries > 0)
    /\ val_score <= best_validation_score
    /\ pc' = "load"
    /\ UNCHANGED <<epoch, model, criterion, n_tries, best_validation_score,
                   best_weights, metric, val_score>>
    /\ UNCHANGED <<flagVars, mainVars, histVars, metricVars>>

CheckpointResetsCountdown ==
    /\ pc = "decide"
    /\ ~(val_score <= best_validation_score)
    /\ best_validation_score' = val_score
    /\ best_weights' = <<model.weights>>
    /\ n_tries' = early_stopping_epochs
    /\ pc' = "for"
    /\ UNCHANGED <<epoch, model, criterion, metric, val_score>>
    /\ UNCHANGED <<flagVars, mainVars, histVars, metricVars>>

CheckpointKeepsScore ==
    /\ pc = "decide"
    /\ ~(val_score <= best_validation_score)
    /\ best_weights' = <<model.weights>>
    /\ pc' = "for"
    /\ UNCHANGED <<epoch, model, criterion, n_tries, best_validation_score,
                   metric, val_score>>
    /\ UNCHANGED <<flagVars, mainVars, histVars, metricVars>>

\* lines 101-102: an improving epoch is checkpointed
Checkpoint ==
    /\ pc = "decide"
    /\ ~(val_score <= best_validation_score)
    /\ best_validation_score' = val_score
    /\ best_weights' = <<model.weights>>
    /\ pc' = "for"
    /\ UNCHANGED <<epoch, model, criterion, n_tries, metric, val_score>>
    /\ UNCHANGED <<flagVars, mainVars, histVars, metricVars>>

\* line 104: load_state_dict(best_weights) with a checkpoint
LoadStateDict ==
    /\ pc = "load"
    /\ best_weights # None
    /\ model' = [model EXCEPT !.weights = best_weights[1]]
    /\ pc' = "return"
    /\ UNCHANGED <<epoch, criterion, n_tries, best_validation_score, best_weights,
                   metric, val_score>>
    /\ UNCHANGED <<flagVars, mainVars, histVars, metricVars>>

\* line 104: load_state_dict(None) raises; main's except StopIteration does
\* not catch it
LoadStateDictRaises ==
    /\ pc = "load"
    /\ best_weights = None
    /\ pc' = "raised"
    /\ mainpc' = "crashed"
    /\ UNCHANGED <<yielded, test_scores, nCalls, tested>>
    /\ UNCHANGED <<epoch, model, criterion, n_tries, best_validation_score,
                   best_weights, metric, val_score>>
    /\ UNCHANGED <<flagVars, histVars, metricVars>>

\* line 106 and main line 160: train_model returns the model
Return ==
    /\ pc = "return"
    /\ pc' = "returned"
    /\ mainpc' = "evaluate"
    /\ UNCHANGED <<yielded, test_scores, nCalls, tested>>
    /\ UNCHANGED <<epoch, model, criterion, n_tries, best_validation_score,
                   best_weights, metric, val_score>>
    /\ UNCHANGED <<flagVars, histVars, metricVars>>

\* main lines 161-167: the test set is evaluated and the score collected
EvaluateTest ==
    /\ mainpc = "evaluate"
    /\ \E s \in 0..MaxTestScore : test_scores' = Append(test_scores, s)
    /\ tested' = Append(tested, model.id)
    /\ mainpc' = "next"
    /\ UNCHANGED <<yielded, nCalls>>
    /\ UNCHANGED <<flagVars, trainVars, histVars, metricVars>>

\* ------------------------------------------------------------------- Init
TrainIdle ==
    /\ mainpc = "next" /\ yielded = 0 /\ test_scores = <<>> /\ nCalls = 0
    /\ tested = <<>>
    /\ pc = "idle" /\ epoch = -1 /\ model = [id |-> 0, weights |-> 0]
    /\ criterion = "unset" /\ n_tries = 0 /\ best_validation_score = 0
    /\ best_weights = None /\ metric = "None" /\ val_score = 0
    /\ scores = <<>> /\ nTrain = 0 /\ nSteps = 0 /\ nModels = 0

MetricsIdle ==
    /\ mpc = "idle" /\ logits = <<>> /\ truths = <<>>
    /\ accuracy = [num |-> 0, den |-> 1]
    /\ fnn_out = <<>> /\ lambda_ = 0 /\ k_ = 0
    /\ loss = [num |-> 0, den |-> 1] /\ lossK = [num |-> 0, den |-> 1]

Init ==
    /\ regression \in BOOLEAN
    /\ y_ndim \in {1, 2}
    /\ training_epochs \in 0..MaxEpochs
    /\ early_stopping_epochs \in 0..MaxPatience
    /\ n_splits \in 0..MaxSplits
    /\ TrainIdle
    /\ MetricsIdle

Next ==
    \/ NextFold
    \/ FoldsExhausted
    \/ TrainModelSetup
    \/ ForNext
    \/ ForExhausted
    \/ TrainOneEpoch
    \/ SchedulerStep
    \/ Validate
    \/ Countdown
    \/ EarlyStop
    \/ Checkpoint
    \/ LoadStateDict
    \/ LoadStateDictRaises
    \/ Return
    \/ EvaluateTest

Spec == Init /\ [][Next]_vars

\* ------------------------------------------- specifications of nam.metrics
LogitValues == {0, 1}

FnnValues == {-1, 0, 2}

OneHot(c) == {[j \in 1..c |-> IF j = h THEN 1 ELSE 0] : h \in 1..c}

FlagsIdle ==
    /\ regression = FALSE /\ y_ndim = 2 /\ training_epochs = 0
    /\ early_stopping_epochs = 0 /\ n_splits = 0

\* logits and one-hot truths of one batch, R >= 1 rows and C >= 2 classes
InitAcc ==
    /\ FlagsIdle
    /\ TrainIdle
    /\ mpc = "input"
    /\ \E r \in 1..MaxRows, c \in 2..MaxClasses :
        /\ logits \in [1..r -> [1..c -> LogitValues]]
        /\ truths \in [1..r -> OneHot(c)]
    /\ accuracy = [num |-> 0, den |-> 1]
    /\ fnn_out = <<>> /\ lambda_ = 0 /\ k_ = 0
    /\ loss = [num |-> 0, den |-> 1] /\ lossK = [num |-> 0, den |-> 1]

\* calculate_metric's multi-class branch
CalcAccuracyMuti ==
    /\ mpc = "input"
    /\ accuracy' = accuracyMuti(logits, truths)
    /\ mpc' = "accuracy"
    /\ UNCHANGED <<logits, truths, fnn_out, lambda_, k_, loss, lossK>>
    /\ UNCHANGED <<flagVars, mainVars, trainVars, histVars>>

NextAcc == CalcAccuracyMuti

SpecAcc == InitAcc /\ [][NextAcc]_vars

\* the feature outputs of one batch (one column per feature of the model,
\* at least one), and the penalty weight
InitFL ==
    /\ FlagsIdle
    /\ TrainIdle
    /\ mpc = "input"
    /\ logits = <<>> /\ truths = <<>>
    /\ accuracy = [num |-> 0, den |-> 1]
    /\ \E r \in 1..MaxBatch, f \in 1..MaxFeat :
        fnn_out \in [1..r -> [1..f -> FnnValues]]
    /\ lambda_ \in (0 - MaxLambda)..MaxLambda
    /\ k_ = 0
    /\ loss = [num |-> 0, den |-> 1] /\ lossK = [num |-> 0, den |-> 1]

\* the penalty with weight lambda_ and with weight k * lambda_
CalcFeatureLoss ==
    /\ mpc = "input"
    /\ \E k \in (0 - MaxLambda)..MaxLambda :
        /\ k_' = k
        /\ lossK' = feature_loss(fnn_out, k * lambda_)
    /\ loss' = feature_loss(fnn_out, lambda_)
    /\ mpc' = "loss"
    /\ UNCHANGED <<logits, truths, accuracy, fnn_out, lambda_>>
    /\ UNCHANGED <<flagVars, mainVars, trainVars, histVars>>

NextFL == CalcFeatureLoss

SpecFL == InitFL /\ [][NextFL]_vars

\* ------------------------------------------------------------- properties
\* the maximum of 0 and the scores of s
RECURSIVE Max0(_)
Max0(s) ==
    IF s = <<>> THEN 0
    ELSE LET m == Max0(Tail(s)) IN IF Head(s) > m THEN Head(s) ELSE m

Before(s, i) == SubSeq(s, 1, i - 1)

\* the epochs (1-based) whose score is <= the best score before them
NonImprovingEpochs(s) == {i \in 1..Len(s) : s[i] <= Max0(Before(s, i))}

\* the epochs (1-based) whose score is > the best score before them
ImprovingEpochs(s) == {i \in 1..Len(s) : s[i] > Max0(Before(s, i))}

\* the scores the early-stopping decision has already been taken on
Decided == IF pc = "decide" THEN Before(scores, Len(scores)) ELSE scores

InLoop == pc \in {"for", "train", "sched", "validate", "decide"}

AfterLoop == pc \in {"load", "return", "returned", "raised"}

\* C1: with n_tries starting at the patience P, every non-improving epoch
\* lowers n_tries while it is positive and otherwise ends the loop: the loop
\* goes on while at most P non-improving epochs were decided, it ends at the
\* (P+1)-th non-improving epoch, and with fewer than P+1 of them it runs all
\* training_epochs epochs.
C1_StopsAtPatiencePlusOne ==
    LET P == early_stopping_epochs
        ni == Cardinality(NonImprovingEpochs(Decided))
    IN  /\ InLoop =>
            /\ ni <= P
            /\ n_tries = P - ni
        /\ AfterLoop =>
            /\ ni <= P + 1
            /\ ni = P + 1 =>
                /\ Len(scores) \in NonImprovingEpochs(scores)
                /\ n_tries = 0
            /\ ni < P + 1 =>
                /\ Len(scores) = training_epochs
                /\ n_tries = P - ni
            /\ nTrain = Len(scores)

\* the loop was left early, at the second non-improving epoch or later
C1_Witness ==
    /\ pc = "load"
    /\ early_stopping_epochs >= 1
    /\ Len(scores) < training_epochs
    /\ Cardinality(NonImprovingEpochs(scores)) = early_stopping_epochs + 1

\* C2: every run of train_model returns normally, and on return the model's
\* weights are the checkpoint of the last epoch that raised
\* best_validation_score.
C2_ReturnsBestWeights ==
    pc \in {"returned", "raised"} =>
        /\ pc = "returned"
        /\ ImprovingEpochs(scores) # {}
        /\ \A i \in ImprovingEpochs(scores) : i <= model.weights
        /\ model.weights \in ImprovingEpochs(scores)

\* C3: during a call of train_model n_tries never goes up, an improving
\* epoch leaves it unchanged and a non-improving epoch with n_tries > 0
\* lowers it by exactly 1.
C3_CountdownNeverReset ==
    [][mainpc = "train_model" =>
        /\ n_tries' <= n_tries
        /\ (pc = "decide" /\ val_score > best_validation_score) => n_tries' = n_tries
        /\ (pc = "decide" /\ val_score <= best_validation_score /\ n_tries > 0)
              => n_tries' = n_tries - 1]_vars

\* an improving epoch was decided after the countdown had been lowered
C3_Witness ==
    /\ pc = "for"
    /\ Len(scores) >= 2
    /\ Len(scores) \in ImprovingEpochs(scores)
    /\ n_tries < early_stopping_epochs

\* C4: main ends normally with the generator exhausted, train_model called
\* n_splits times, each call on a new model, the test set evaluated once
\* after each call and test_scores holding n_splits scores in fold order.
C4_MainConsumesAllFolds ==
    mainpc \in {"exited", "crashed"} =>
        /\ mainpc = "exited"
        /\ yielded = n_splits
        /\ nCalls = n_splits
        /\ nModels = n_splits
        /\ Len(test_scores) = n_splits
        /\ tested = [i \in 1..n_splits |-> i]

AllRowsMatch == \A r \in 1..Len(logits) : argmax(logits[r]) = argmax(truths[r])

NoRowMatches == \A r \in 1..Len(logits) : argmax(logits[r]) # argmax(truths[r])

\* C5: accuracyMuti returns 1.0 when the arg-max classes agree in every row
\* and 0.0 when they agree in no row.
C5_AccuracyMutiExtremes ==
    mpc = "accuracy" =>
        /\ AllRowsMatch => (accuracy.den > 0 /\ accuracy.num = accuracy.den)
        /\ NoRowMatches => (accuracy.den > 0 /\ accuracy.num = 0)

\* the sum of the squared entries, entry by entry
RECURSIVE SquaresOver(_, _)
SquaresOver(t, cells) ==
    IF cells = {} THEN 0
    ELSE LET c == CHOOSE x \in cells : TRUE
         IN  t[c[1]][c[2]] * t[c[1]][c[2]] + SquaresOver(t, cells \ {c})

SquaresTotal(t) == SquaresOver(t, (1..Len(t)) \X (1..Len(t[1])))

\* a rational that is a number >= 0
NonNegative(q) == q.den > 0 /\ q.num >= 0

\* the rational q is n / d
IsRatio(q, n, d) == q.den > 0 /\ d > 0 /\ q.num * d = n * q.den

LossIsLinear == lossK.den > 0 /\ loss.den > 0 /\ lossK.num * loss.den = k_ * loss.num * lossK.den

LossOverFeatures == IsRatio(loss, lambda_ * SquaresTotal(fnn_out), Len(fnn_out[1]))

\* C6 as stated: for every fnn_out and every lambda_ the penalty is
\* non-negative, linear in lambda_, and lambda_ times the sum of squares over
\* the number of features.
C6_FeatureLossAsStated ==
    mpc = "loss" =>
        /\ NonNegative(loss)
        /\ LossIsLinear
        /\ LossOverFeatures

\* C6 amended: for every fnn_out with at least one feature and every
\* lambda_, the penalty is linear in lambda_ and is lambda_ times the sum of
\* squares over the number of features (not over the batch size); it is
\* non-negative when lambda_ >= 0.
C6_FeatureLoss ==
    mpc = "loss" =>
        /\ lambda_ >= 0 => NonNegative(loss)
        /\ LossIsLinear
        /\ LossOverFeatures

\* a penalty of a batch whose size differs from the number of features
C6_Witness ==
    /\ mpc = "loss"
    /\ Len(fnn_out) # Len(fnn_out[1])
    /\ lambda_ > 0
    /\ k_ < 0
    /\ loss.num > 0

\* the criterion the task calls for
TaskCriterion ==
    IF regression THEN "penalized_mse"
    ELSE IF y_ndim = 1 THEN "penalized_cross_entropy"
    ELSE "penalized_cross_entropy_MutiTask"

\* C7: the criterion of train_model is penalized_mse for regression,
\* penalized_cross_entropy for a 1-D target and
\* penalized_cross_entropy_MutiTask for a 2-D one-hot target.
C7_CriterionDispatch == pc # "idle" => criterion = TaskCriterion

\* C8: the scheduler steps once in every epoch that starts, after the
\* training pass and before the validation pass, whatever the validation
\* outcome: the number of scheduler steps is the number of training passes
\* at every point but the one between a training pass and its scheduler
\* step, and a validation pass starts with one step more than validations.
C8_SchedulerStepsOncePerEpoch ==
    pc # "idle" =>
        /\ pc = "sched" => (nTrain = nSteps + 1 /\ Len(scores) = nSteps)
        /\ pc # "sched" => nSteps = nTrain
        /\ pc = "validate" => nSteps = Len(scores) + 1
        /\ pc \in {"decide", "for", "load", "return", "returned", "raised"}
              => (nSteps = Len(scores) /\ nSteps = epoch + 1)

\* the epoch that triggered early stopping had its scheduler step
C8_Witness ==
    /\ pc = "load"
    /\ Len(scores) < training_epochs
    /\ Len(scores) \in NonImprovingEpochs(scores)
    /\ nSteps = Len(scores)
    /\ nSteps >= 2

\* the first epoch whose score is the maximum of the scores
FirstBest(s) == CHOOSE i \in 1..Len(s) :
    /\ s[i] = Max0(s)
    /\ \A j \in 1..(i - 1) : s[j] # Max0(s)

\* C9: after every completed epoch best_validation_score is the maximum of
\* 0 and the scores observed, and best_weights is a checkpoint iff some
\* score was > 0, and then the checkpoint of the first epoch that reached
\* the best score.
C9_BestIsRunningMax ==
    (pc # "idle" /\ pc # "decide") =>
        /\ best_validation_score = Max0(scores)
        /\ (best_weights # None) <=> (\E i \in 1..Len(scores) : scores[i] > 0)
        /\ best_weights # None => best_weights = <<FirstBest(scores)>>

\* a later epoch equalled the best score and the first checkpoint was kept
C9_Witness ==
    /\ pc = "for"
    /\ Len(scores) >= 2
    /\ scores[1] > 0
    /\ scores[2] = scores[1]
    /\ best_weights = <<1>>

\* C10: for regression the score is the MAE, the weights returned are those
\* of the epoch with the lowest validation MAE among the epochs that ran,
\* and the non-improving epochs are those whose MAE did not get lower.
C10_RegressionKeepsLowestMAE ==
    (regression /\ pc = "returned") =>
        /\ metric = "MAE"
        /\ model.weights \in 1..Len(scores)
        /\ \A i \in 1..Len(scores) : scores[model.weights] <= scores[i]

====
